---- MODULE Spec2Model ----
(***************************************************************************)
(* AI Study Helper API (src/main.py): the rule-based generators and the    *)
(* /api/generate handler that dispatches to them.                          *)
(*                                                                         *)
(* A Python str is modelled as a sequence of one-character strings, so     *)
(* that lower(), strip(), replace(), split() and the regular expression of *)
(* the keyword extractor are computed character by character.              *)
(***************************************************************************)
EXTENDS Integers, Sequences, FiniteSets, TLC

VARIABLES text, type, count, pc, called, ret

vars == <<text, type, count, pc, called, ret>>

(***************************************************************************)
(* Bounds of the model.                                                    *)
(***************************************************************************)
\* pieces appended to a base text when a generator is called directly
MaxTail == 2
\* pieces appended to a base text when generate_mcqs is called directly
MaxMcqTail == 2
\* pieces of a request's text in the handler specification
MaxPieces == 3
\* largest n (or k) a generator is called with directly
MaxN == 3
\* largest n generate_mcqs is called with directly (each MCQ is shuffled)
MaxMcqs == 2
\* largest count a request carries
MaxCount == 2

(***************************************************************************)
(* Characters and the str methods the code uses.                           *)
(***************************************************************************)
Min(a, b) == IF a < b THEN a ELSE b
Max(a, b) == IF a > b THEN a ELSE b

UpperLetters ==
  <<"A", "B", "C", "D", "E", "F", "G", "H", "I", "J", "K", "L", "M",
    "N", "O", "P", "Q", "R", "S", "T", "U", "V", "W", "X", "Y", "Z">>
LowerLetters ==
  <<"a", "b", "c", "d", "e", "f", "g", "h", "i", "j", "k", "l", "m",
    "n", "o", "p", "q", "r", "s", "t", "u", "v", "w", "x", "y", "z">>

UpperSet == {UpperLetters[i] : i \in 1..26}
LowerSet == {LowerLetters[i] : i \in 1..26}
ToLower == [c \in UpperSet |-> LowerLetters[CHOOSE i \in 1..26 : UpperLetters[i] = c]]
ToUpper == [c \in LowerSet |-> UpperLetters[CHOOSE i \in 1..26 : LowerLetters[i] = c]]

IsUpper(c) == c \in UpperSet
IsLower(c) == c \in LowerSet
\* [a-zA-Z]
IsLetter(c) == IsUpper(c) \/ IsLower(c)
\* [a-zA-Z-]
IsWordChar(c) == IsLetter(c) \/ c = "-"
\* the characters str.strip() removes
IsSpace(c) == c \in {" ", "\n", "\t", "\r"}

LowerChar(c) == IF IsUpper(c) THEN ToLower[c] ELSE c
UpperChar(c) == IF IsLower(c) THEN ToUpper[c] ELSE c

\* str.lower()
lower(s) == [i \in 1..Len(s) |-> LowerChar(s[i])]

\* str.title(): a letter is upper-cased after a non-letter, lower-cased after a letter
title(s) ==
  [i \in 1..Len(s) |->
     IF i > 1 /\ IsLetter(s[i - 1]) THEN LowerChar(s[i]) ELSE UpperChar(s[i])]

\* str.strip()
strip(s) ==
  LET keep == {i \in 1..Len(s) : ~IsSpace(s[i])}
  IN  IF keep = {} THEN <<>>
      ELSE SubSeq(s, CHOOSE i \in keep : \A j \in keep : i <= j,
                     CHOOSE i \in keep : \A j \in keep : j <= i)

\* str.replace(old, new) for single characters
replace(s, old, new) == [i \in 1..Len(s) |-> IF s[i] = old THEN new ELSE s[i]]

\* str.split(sep) for a single-character separator
RECURSIVE split(_, _)
split(s, sep) ==
  LET at == {i \in 1..Len(s) : s[i] = sep}
  IN  IF at = {} THEN <<s>>
      ELSE LET i == CHOOSE i \in at : \A j \in at : i <= j
           IN  <<SubSeq(s, 1, i - 1)>> \o split(SubSeq(s, i + 1, Len(s)), sep)

\* sep.join(parts)
RECURSIVE join(_, _)
join(sep, parts) ==
  IF parts = <<>> THEN <<>>
  ELSE IF Len(parts) = 1 THEN parts[1]
  ELSE parts[1] \o sep \o join(sep, Tail(parts))

\* needle in hay
Contains(hay, needle) ==
  \E i \in 0..(Len(hay) - Len(needle)) :
    \A j \in 1..Len(needle) : hay[i + j] = needle[j]

\* seq[:n], also for a negative n
Take(seq, n) ==
  IF n >= 0 THEN SubSeq(seq, 1, Min(n, Len(seq)))
  ELSE SubSeq(seq, 1, Max(0, Len(seq) + n))

(***************************************************************************)
(* _sentences                                                              *)
(***************************************************************************)
\* the pieces kept as split, not stripped
sentences_unstripped(t) ==
  SelectSeq(split(replace(t, "\n", " "), "."), LAMBDA s : s # <<>>)

sentences(t) ==
  LET raw == split(replace(t, "\n", " "), ".")
      stripped == [i \in 1..Len(raw) |-> strip(raw[i])]
  IN  SelectSeq(stripped, LAMBDA s : s # <<>>)

(***************************************************************************)
(* _top_keywords                                                           *)
(***************************************************************************)
stop ==
  { <<"a">>,
    <<"a", "n">>,
    <<"t", "h", "e">>,
    <<"a", "n", "d">>,
    <<"o", "r">>,
    <<"b", "u", "t">>,
    <<"i", "f">>,
    <<"t", "h", "e", "n">>,
    <<"e", "l", "s", "e">>,
    <<"f", "o", "r">>,
    <<"t", "o">>,
    <<"o", "f">>,
    <<"i", "n">>,
    <<"o", "n">>,
    <<"a", "t">>,
    <<"b", "y">>,
    <<"w", "i", "t", "h">>,
    <<"f", "r", "o", "m">>,
    <<"i", "n", "t", "o">>,
    <<"o", "v", "e", "r">>,
    <<"a", "f", "t", "e", "r">>,
    <<"b", "e", "f", "o", "r", "e">>,
    <<"d", "u", "r", "i", "n", "g">>,
    <<"i", "s">>,
    <<"a", "r", "e">>,
    <<"w", "a", "s">>,
    <<"w", "e", "r", "e">>,
    <<"b", "e">>,
    <<"b", "e", "e", "n">>,
    <<"b", "e", "i", "n", "g">> }

\* re.findall(r"[a-zA-Z][a-zA-Z-]+", s): leftmost, greedy, non-overlapping
\* where the run of [a-zA-Z-] that holds position j ends
RECURSIVE RunEnd(_, _)
RunEnd(s, j) == IF j < Len(s) /\ IsWordChar(s[j + 1]) THEN RunEnd(s, j + 1) ELSE j

RECURSIVE findall(_, _)
findall(s, i) ==
  IF i > Len(s) THEN <<>>
  ELSE IF IsLetter(s[i]) /\ i < Len(s) /\ IsWordChar(s[i + 1])
  THEN LET j == RunEnd(s, i + 1)
       IN  <<SubSeq(s, i, j)>> \o findall(s, j + 1)
  ELSE findall(s, i + 1)

\* a stop word without the stop-word test
SkippedOnlyIfShort(w) == Len(w) < 3

\* if w in stop or len(w) < 3: continue
Skipped(w) == w \in stop \/ Len(w) < 3

\* the loop over words: freq is a dict, kept as the sequence of its items in
\* insertion order
RECURSIVE CountWords(_, _)
CountWords(words, freq) ==
  IF words = <<>> THEN freq
  ELSE LET w == Head(words)
       IN  IF Skipped(w) THEN CountWords(Tail(words), freq)
           ELSE IF \E i \in 1..Len(freq) : freq[i][1] = w
           THEN CountWords(Tail(words),
                  [i \in 1..Len(freq) |->
                     IF freq[i][1] = w THEN <<w, freq[i][2] + 1>> ELSE freq[i]])
           ELSE CountWords(Tail(words), Append(freq, <<w, 1>>))

\* an item put before the items of equal count: ties in reverse order
InsertByCountBeforeTies(sorted, item) ==
  LET before == {i \in 1..Len(sorted) : sorted[i][2] > item[2]}
      n == Cardinality(before)
  IN  SubSeq(sorted, 1, n) \o <<item>> \o SubSeq(sorted, n + 1, Len(sorted))

\* where sorted(..., key=count, reverse=True) puts an item among the items
\* sorted so far: after every item whose count is at least as large (stable)
InsertByCount(sorted, item) ==
  LET before == {i \in 1..Len(sorted) : sorted[i][2] >= item[2]}
      n == Cardinality(before)
  IN  SubSeq(sorted, 1, n) \o <<item>> \o SubSeq(sorted, n + 1, Len(sorted))

RECURSIVE SortByCount(_, _)
SortByCount(items, sorted) ==
  IF items = <<>> THEN sorted
  ELSE SortByCount(Tail(items), InsertByCount(sorted, Head(items)))

top_keywords(t, k) ==
  LET words == findall(lower(t), 1)
      freq == CountWords(words, <<>>)
      ranked == SortByCount(freq, <<>>)
  IN  [i \in 1..Len(Take(ranked, k)) |-> ranked[i][1]]

(***************************************************************************)
(* Optional values: None, or a value that is present.                      *)
(***************************************************************************)
None == <<>>
Some(v) == <<v>>

(***************************************************************************)
(* generate_notes, generate_summary                                        *)
(***************************************************************************)
MsgNoNotes ==
  <<"N", "o", " ", "c", "o", "n", "t", "e", "n", "t", " ", "r", "e", "c", "o", "g", "n", "i", "z", "e", "d", ".">>
MsgNoContent ==
  <<"N", "o", " ", "c", "o", "n", "t", "e", "n", "t", " ", "p", "r", "o", "v", "i", "d", "e", "d", ".">>
\* "U+2022" stands for the one character of that code point, the bullet
Bullet == <<"U+2022", " ">>

generate_notes(t, n) ==
  LET sents == sentences(t)
      taken == Take(sents, n)
  IN  IF taken = <<>> THEN <<MsgNoNotes>>
      ELSE [i \in 1..Len(taken) |-> Bullet \o taken[i]]

\* the default of generate_summary's n
SummaryDefaultN == 3

generate_summary(t, n) ==
  LET sents == sentences(t)
  IN  IF sents = <<>> THEN MsgNoContent ELSE join(<<" ">>, Take(sents, n))

(***************************************************************************)
(* generate_flashcards                                                     *)
(***************************************************************************)
WhatIs ==
  <<"W", "h", "a", "t", " ", "i", "s", " ">>
DefinitionFor ==
  <<"D", "e", "f", "i", "n", "i", "t", "i", "o", "n", "/", "c", "o", "n", "t", "e", "x", "t", " ", "f", "o", "r", " ">>
FromTheText ==
  <<" ", "f", "r", "o", "m", " ", "t", "h", "e", " ", "t", "e", "x", "t", ".">>
MainIdeaQuestion ==
  <<"W", "h", "a", "t", " ", "i", "s", " ", "t", "h", "e", " ", "m", "a", "i", "n", " ", "i", "d", "e", "a", "?">>

\* the sentence searched as written, not lower-cased
FirstSentenceWithExactCase(sents, k) ==
  LET hits == {i \in 1..Len(sents) : Contains(sents[i], k)}
  IN  IF hits = {} THEN None
      ELSE Some(sents[CHOOSE i \in hits : \A j \in hits : i <= j])

\* next((s for s in sents if k in s.lower()), None)
FirstSentenceWith(sents, k) ==
  LET hits == {i \in 1..Len(sents) : Contains(lower(sents[i]), k)}
  IN  IF hits = {} THEN None
      ELSE Some(sents[CHOOSE i \in hits : \A j \in hits : i <= j])

FlashcardFor(sents, k) ==
  LET hint == FirstSentenceWith(sents, k)
  IN  [question |-> WhatIs \o k \o <<"?">>,
       answer   |-> IF hint # None THEN hint[1]
                    ELSE DefinitionFor \o k \o FromTheText]

\* a card for every keyword extracted, not for the first n
generate_flashcards_all_keys(t, n) ==
  LET keys == top_keywords(t, Max(3, n))
      sents == sentences(t)
      cards == [i \in 1..Len(keys) |-> FlashcardFor(sents, keys[i])]
  IN  IF cards = <<>>
      THEN <<[question |-> MainIdeaQuestion,
              answer   |-> generate_summary(t, 3)]>>
      ELSE cards

generate_flashcards(t, n) ==
  LET keys == top_keywords(t, Max(3, n))
      sents == sentences(t)
      used == Take(keys, n)
      cards == [i \in 1..Len(used) |-> FlashcardFor(sents, used[i])]
  IN  IF cards = <<>>
      THEN <<[question |-> MainIdeaQuestion,
              answer   |-> generate_summary(t, SummaryDefaultN)]>>
      ELSE cards

(***************************************************************************)
(* generate_mcqs                                                           *)
(***************************************************************************)
IdentifyConcept ==
  <<"I", "d", "e", "n", "t", "i", "f", "y", " ", "t", "h", "e", " ", "c", "o", "n", "c", "e", "p", "t", " ", "r", "e", "l", "a", "t", "e", "d", " ", "t", "o", " ", "'">>
QuoteDot ==
  <<"'", ".">>
NotPrefix ==
  <<"N", "o", "t", " ">>
Summary ==
  <<"S", "u", "m", "m", "a", "r", "y">>
Detail ==
  <<"D", "e", "t", "a", "i", "l">>
Example ==
  <<"E", "x", "a", "m", "p", "l", "e">>
Opinion ==
  <<"O", "p", "i", "n", "i", "o", "n">>

\* the orders random.shuffle can leave a list of four in
Shuffles == {p \in [1..4 -> 1..4] : \A i, j \in 1..4 : p[i] = p[j] => i = j}

\* [d for d in keys if d != k][:3], padded with "Not {k}" up to three
Distractors(keys, k) ==
  LET others == Take(SelectSeq(keys, LAMBDA d : d # k), 3)
  IN  others \o [i \in 1..(3 - Len(others)) |-> NotPrefix \o k]

\* list.index(x), 0-based
IndexOf(seq, x) ==
  (CHOOSE i \in 1..Len(seq) : seq[i] = x /\ \A j \in 1..(i - 1) : seq[j] # x) - 1

\* the question and the options of the MCQ for k, before random.shuffle
McqDraft(sents, keys, k) ==
  LET found == FirstSentenceWith(sents, k)
  IN  [question |-> IF found # None /\ found[1] # <<>> THEN found[1]
                    ELSE IdentifyConcept \o k \o QuoteDot,
       options  |-> Distractors(keys, k) \o <<k>>,
       key      |-> k]

\* random.shuffle(options) leaving them in the order p, then options.index(k)
Shuffled(draft, p) ==
  LET options == [i \in 1..4 |-> draft.options[p[i]]]
  IN  [question |-> draft.question, options |-> options,
       answer_index |-> IndexOf(options, draft.key)]

FallbackMcq ==
  [question |-> MainIdeaQuestion,
   options |-> <<Summary, Detail, Example, Opinion>>,
   answer_index |-> 0]

\* the keywords generate_mcqs builds an MCQ from
McqKeys(t, n) == Take(top_keywords(t, n + 3), n)

\* the lists generate_mcqs can return: one for every way random.shuffle can
\* order the options of each MCQ
generate_mcqs(t, n) ==
  LET keys == top_keywords(t, n + 3)
      sents == sentences(t)
      used == Take(keys, n)
      drafts == [i \in 1..Len(used) |-> McqDraft(sents, keys, used[i])]
  IN  IF drafts = <<>> THEN {<<FallbackMcq>>}
      ELSE {[i \in 1..Len(drafts) |-> Shuffled(drafts[i], shuffles[i])] :
              shuffles \in [1..Len(drafts) -> Shuffles]}

(***************************************************************************)
(* generate_mindmap                                                        *)
(***************************************************************************)
StudyNotes ==
  <<"S", "t", "u", "d", "y", " ", "N", "o", "t", "e", "s">>
root ==
  <<"r", "o", "o", "t">>
Digits == <<"0", "1", "2", "3", "4", "5", "6", "7", "8", "9">>

\* str(i) of a natural number
RECURSIVE DecimalStr(_)
DecimalStr(i) ==
  IF i < 10 THEN <<Digits[i + 1]>>
  ELSE DecimalStr(i \div 10) \o <<Digits[(i % 10) + 1]>>

\* the k of _top_keywords(text, 6)
MindmapKeywords == 6

\* the keywords taken with the default k of _top_keywords, 8
generate_mindmap_default_k(t) ==
  LET keys == top_keywords(t, 8)
  IN  [nodes |-> <<[id |-> root, label |-> StudyNotes]>> \o
                 [i \in 1..Len(keys) |->
                    [id |-> <<"n">> \o DecimalStr(i - 1), label |-> title(keys[i])]],
       edges |-> [i \in 1..Len(keys) |->
                    [from |-> root, to |-> <<"n">> \o DecimalStr(i - 1)]]]

generate_mindmap(t) ==
  LET keys == top_keywords(t, MindmapKeywords)
  IN  [nodes |-> <<[id |-> root, label |-> StudyNotes]>> \o
                 [i \in 1..Len(keys) |->
                    [id |-> <<"n">> \o DecimalStr(i - 1), label |-> title(keys[i])]],
       edges |-> [i \in 1..Len(keys) |->
                    [from |-> root, to |-> <<"n">> \o DecimalStr(i - 1)]]]

(***************************************************************************)
(* generate: the POST /api/generate handler                                *)
(***************************************************************************)
MsgNoText ==
  <<"P", "l", "e", "a", "s", "e", " ", "p", "r", "o", "v", "i", "d", "e", " ", "l", "e", "s", "s", "o", "n", " ", "t", "e", "x", "t", ".">>
MsgUnknownType ==
  <<"U", "n", "k", "n", "o", "w", "n", " ", "g", "e", "n", "e", "r", "a", "t", "i", "o", "n", " ", "t", "y", "p", "e", ".">>
notes ==
  <<"n", "o", "t", "e", "s">>
summary ==
  <<"s", "u", "m", "m", "a", "r", "y">>
flashcards ==
  <<"f", "l", "a", "s", "h", "c", "a", "r", "d", "s">>
mcqs ==
  <<"m", "c", "q", "s">>
quiz ==
  <<"q", "u", "i", "z">>
mindmap ==
  <<"m", "i", "n", "d", "m", "a", "p">>

\* the default of GenerateRequest.count, and of "payload.count or 5"
DefaultCount == 5

\* GenerateResponse(type=ty) with every optional field left at None
EmptyResponse(ty) ==
  [type |-> ty, notes |-> None, summary |-> None, flashcards |-> None,
   mcqs |-> None, quiz |-> None, mindmap |-> None]

\* count = payload.count or 5
EffectiveCount(c) == IF c = None \/ c = Some(0) THEN DefaultCount ELSE c[1]

\* the text tested as sent, not stripped
RequestTextUnstripped(t) == t

\* text = (payload.text or "").strip()
RequestText(t) == strip(t)

\* the type compared as sent, not lower-cased
RequestTypeAsSent(ty) == ty

\* t = payload.type.lower()
RequestType(ty) == lower(ty)

IsMcqType(ty) == ty = mcqs \/ ty = quiz

\* what the handler's call of generate_mcqs can return, if it makes one
McqResults(t0, ty0, c) ==
  IF RequestText(t0) # <<>> /\ IsMcqType(RequestType(ty0))
  THEN generate_mcqs(RequestText(t0), EffectiveCount(c))
  ELSE {<<>>}

\* the GenerateResponse the handler returns, its call of generate_mcqs
\* returning out
Response(t0, ty0, c, out) ==
  LET t == RequestText(t0)
      ty == RequestType(ty0)
      n == EffectiveCount(c)
  IN  IF t = <<>>
      THEN [EmptyResponse(ty0) EXCEPT !.summary = Some(MsgNoText)]
      ELSE IF ty = notes
      THEN [EmptyResponse(ty) EXCEPT !.notes = Some(generate_notes(t, n))]
      ELSE IF ty = summary
      THEN [EmptyResponse(ty) EXCEPT
              !.summary = Some(generate_summary(t, SummaryDefaultN))]
      ELSE IF ty = flashcards
      THEN [EmptyResponse(ty) EXCEPT !.flashcards = Some(generate_flashcards(t, n))]
      ELSE IF ty = mcqs
      THEN [EmptyResponse(ty) EXCEPT !.mcqs = Some(out)]
      ELSE IF ty = quiz
      THEN [EmptyResponse(ty) EXCEPT !.quiz = Some(out)]
      ELSE IF ty = mindmap
      THEN [EmptyResponse(ty) EXCEPT !.mindmap = Some(generate_mindmap(t))]
      ELSE [EmptyResponse(ty) EXCEPT !.summary = Some(MsgUnknownType)]

\* the generator functions the handler calls on the way
Invoked(t0, ty0) ==
  LET t == RequestText(t0)
      ty == RequestType(ty0)
  IN  IF t = <<>> THEN {}
      ELSE IF ty = notes THEN {"generate_notes"}
      ELSE IF ty = summary THEN {"generate_summary"}
      ELSE IF ty = flashcards THEN {"generate_flashcards"}
      ELSE IF IsMcqType(ty) THEN {"generate_mcqs"}
      ELSE IF ty = mindmap THEN {"generate_mindmap"}
      ELSE {}

(***************************************************************************)
(* Inputs.                                                                 *)
(***************************************************************************)
RECURSIVE Flatten(_)
Flatten(ps) == IF ps = <<>> THEN <<>> ELSE Head(ps) \o Flatten(Tail(ps))

\* every text made of at most n of the pieces
TextsOf(pieces, n) ==
  {Flatten(ps) : ps \in UNION {[1..m -> pieces] : m \in 0..n}}

\* the example text of the documentation; a text with more than six keywords
CatsText ==
  <<"C", "a", "t", "s", " ", "a", "r", "e", " ", "m", "a", "m", "m", "a", "l", "s", ".", " ", "C", "a", "t", "s", " ", "h", "u", "n", "t", " ", "m", "i", "c", "e", ".", " ", "M", "i", "c", "e", " ", "a", "r", "e", " ", "s", "m", "a", "l", "l", ".">>
ZooText ==
  <<"A", "n", "t", " ", "b", "e", "e", " ", "c", "o", "w", " ", "e", "l", "k", " ", "f", "o", "x", " ", "g", "n", "u", " ", "h", "e", "n", ".", " ">>

\* a request's text: words, a hyphen, white space, a period
RequestPieces ==
  {<<"c", "a", "t">>, <<"D", "o", "g">>, <<"-">>, <<" ">>, <<"\n">>, <<".">>}

NOTES ==
  <<"N", "O", "T", "E", "S">>
Quiz ==
  <<"Q", "u", "i", "z">>
unknown_type ==
  <<"u", "n", "k", "n", "o", "w", "n", "_", "t", "y", "p", "e">>
RequestTypes ==
  {notes, summary, flashcards, mcqs, quiz, mindmap, NOTES, Summary, Quiz,
   unknown_type, <<>>}

RequestCounts == {None} \cup {Some(c) : c \in (-1)..MaxCount}

\* the two example requests of the documentation
ExampleRequests == {<<CatsText, summary, Some(2)>>, <<CatsText, notes, Some(2)>>}

Requests ==
  (TextsOf(RequestPieces, MaxPieces) \X RequestTypes \X RequestCounts)
    \cup ExampleRequests

(***************************************************************************)
(* The handler: a request arrives, generate answers it.                    *)
(***************************************************************************)
Init ==
  /\ \E r \in Requests : text = r[1] /\ type = r[2] /\ count = r[3]
  /\ pc = "request"
  /\ called = {}
  /\ ret = None

Generate ==
  /\ pc = "request"
  /\ \E out \in McqResults(text, type, count) :
       ret' = Response(text, type, count, out)
  /\ called' = Invoked(text, type)
  /\ pc' = "generate"
  /\ UNCHANGED <<text, type, count>>

Next == Generate

Spec == Init /\ [][Next]_vars

(***************************************************************************)
(* The generators called directly, as a test of the library would.         *)
(***************************************************************************)
\* a text without a period, of two lines
LinesText ==
  <<"M", "i", "c", "e", " ", "h", "u", "n", "t", "\n", "h", "e", "n", " ">>

BaseTexts == {<<>>, CatsText, ZooText, LinesText}

\* what is appended to a base text: a word of CatsText, a capitalised word of
\* ZooText, a stop word, a short word, a hyphen, white space, a period
TailPieces ==
  {<<"m", "i", "c", "e">>, <<"H", "e", "n">>, <<"t", "h", "e">>, <<"o", "x">>,
   <<"-">>, <<" ">>, <<"\n">>, <<".">>}

LibTexts == {b \o t : b \in BaseTexts, t \in TextsOf(TailPieces, MaxTail)}

McqTexts == {b \o t : b \in BaseTexts, t \in TextsOf(TailPieces, MaxMcqTail)}

InitCall(texts) ==
  /\ text \in texts
  /\ type = <<>>
  /\ count = None
  /\ pc = "call"
  /\ called = {}
  /\ ret = None

Return(fn, n, value) ==
  /\ pc' = fn
  /\ called' = {fn}
  /\ count' = n
  /\ ret' = value
  /\ UNCHANGED <<text, type>>

CallSentences ==
  /\ pc = "call"
  /\ Return("sentences", None, sentences(text))

CallTopKeywords ==
  /\ pc = "call"
  /\ \E k \in (-1)..MaxN : Return("top_keywords", Some(k), top_keywords(text, k))

CallNotes ==
  /\ pc = "call"
  /\ \E n \in (-1)..MaxN : Return("generate_notes", Some(n), generate_notes(text, n))

CallSummary ==
  /\ pc = "call"
  /\ \E n \in (-1)..MaxN :
       Return("generate_summary", Some(n), generate_summary(text, n))

CallFlashcards ==
  /\ pc = "call"
  /\ \E n \in (-1)..MaxN :
       Return("generate_flashcards", Some(n), generate_flashcards(text, n))

CallMindmap ==
  /\ pc = "call"
  /\ Return("generate_mindmap", None, generate_mindmap(text))

CallMcqs ==
  /\ pc = "call"
  /\ \E n \in 1..MaxMcqs :
       \E out \in generate_mcqs(text, n) : Return("generate_mcqs", Some(n), out)

InitLib == InitCall(LibTexts)

NextLib ==
  \/ CallSentences
  \/ CallTopKeywords
  \/ CallNotes
  \/ CallSummary
  \/ CallFlashcards
  \/ CallMindmap

SpecLib == InitLib /\ [][NextLib]_vars

InitMcq == InitCall(McqTexts)

NextMcq == CallMcqs

SpecMcq == InitMcq /\ [][NextMcq]_vars

(***************************************************************************)
(* What the properties below speak of.                                     *)
(***************************************************************************)
Blank(t) == \A i \in 1..Len(t) : IsSpace(t[i])
NoPeriod(t) == \A i \in 1..Len(t) : t[i] # "."
Distinct(seq) == \A i, j \in 1..Len(seq) : seq[i] = seq[j] => i = j
Range(seq) == {seq[i] : i \in 1..Len(seq)}

KnownTypes == {notes, summary, flashcards, mcqs, quiz, mindmap}

\* the tokens of a text that are neither stop words nor shorter than three
Qualifying(t) ==
  SelectSeq(findall(lower(t), 1), LAMBDA w : w \notin stop /\ Len(w) >= 3)
Occurrences(toks, w) == Cardinality({i \in 1..Len(toks) : toks[i] = w})
FirstSeen(toks, w) == CHOOSE i \in 1..Len(toks) : toks[i] = w /\ \A j \in 1..(i - 1) : toks[j] # w
\* a ranks before b: more frequent, or as frequent and seen first
RanksBefore(toks, a, b) ==
  \/ Occurrences(toks, a) > Occurrences(toks, b)
  \/ /\ Occurrences(toks, a) = Occurrences(toks, b)
     /\ FirstSeen(toks, a) < FirstSeen(toks, b)

\* s is the first of sents whose lower-cased form contains k
IsFirstSentenceWith(sents, k, s) ==
  \E i \in 1..Len(sents) :
    /\ sents[i] = s
    /\ Contains(lower(sents[i]), k)
    /\ \A j \in 1..(i - 1) : ~Contains(lower(sents[j]), k)

(***************************************************************************)
(* C1.  Every MCQ that generate_mcqs(text, n), n >= 1, builds from a       *)
(* keyword k has exactly four options, pairwise distinct, and an           *)
(* answer_index in 0..3 with options[answer_index] = k.                    *)
(***************************************************************************)
C1_McqOptionsDistinct ==
  (pc = "generate_mcqs" /\ count[1] >= 1) =>
    LET keys == McqKeys(text, count[1])
    IN  keys # <<>> =>
          /\ Len(ret) = Len(keys)
          /\ \A i \in 1..Len(ret) :
               /\ Len(ret[i].options) = 4
               /\ Distinct(ret[i].options)
               /\ ret[i].answer_index \in 0..3
               /\ ret[i].options[ret[i].answer_index + 1] = keys[i]

(***************************************************************************)
(* C2.  A request of type summary with a count c >= 1, whose text has a    *)
(* sentence, is answered with the first c sentences joined by one space.   *)
(***************************************************************************)
C2_SummaryTakesCount ==
  (/\ pc = "generate"
   /\ type = summary
   /\ count # None
   /\ sentences(strip(text)) # <<>>) =>
    (count[1] >= 1 =>
       ret.summary = Some(join(<<" ">>, Take(sentences(strip(text)), count[1]))))

(***************************************************************************)
(* C3.  A request whose text is empty or all white space is answered, for  *)
(* every type and count, with summary "Please provide lesson text.", the   *)
(* type as requested and every other field null; no generator is called.   *)
(***************************************************************************)
C3_BlankText ==
  (pc = "generate" /\ Blank(text)) =>
    /\ ret.summary = Some(MsgNoText)
    /\ ret.type = type
    /\ ret.notes = None /\ ret.flashcards = None /\ ret.mcqs = None
    /\ ret.quiz = None /\ ret.mindmap = None
    /\ called = {}

C3_Witness ==
  /\ pc = "generate"
  /\ Len(text) = 2 /\ Blank(text)
  /\ type = NOTES
  /\ count = Some(2)
  /\ ret.summary = Some(MsgNoText)

(***************************************************************************)
(* C4.  A request with non-blank text whose lower-cased type is none of    *)
(* the six names is answered with summary "Unknown generation type." and   *)
(* every other field null; a type that is one of the six names after       *)
(* lower-casing is never answered with that message.                       *)
(***************************************************************************)
C4_UnknownType ==
  (pc = "generate" /\ ~Blank(text)) =>
    /\ lower(type) \notin KnownTypes =>
         /\ ret.summary = Some(MsgUnknownType)
         /\ ret.notes = None /\ ret.flashcards = None /\ ret.mcqs = None
         /\ ret.quiz = None /\ ret.mindmap = None
    /\ lower(type) \in KnownTypes => ret.summary # Some(MsgUnknownType)

C4_Witness ==
  /\ pc = "generate"
  /\ ~Blank(text)
  /\ type = unknown_type
  /\ ret.summary = Some(MsgUnknownType)

(***************************************************************************)
(* C5.  _top_keywords(text, k), k >= 0, returns no token shorter than      *)
(* three characters, no stop word, no token twice, and at most k tokens.   *)
(***************************************************************************)
C5_KeywordsFiltered ==
  (pc = "top_keywords" /\ count[1] >= 0) =>
    /\ \A i \in 1..Len(ret) : Len(ret[i]) >= 3 /\ ret[i] \notin stop
    /\ Distinct(ret)
    /\ Len(ret) <= count[1]

\* a text with a stop word, a short token and a repeated keyword, cut to k
C5_Witness ==
  /\ pc = "top_keywords"
  /\ LET toks == findall(lower(text), 1)
     IN  /\ \E i \in 1..Len(toks) : toks[i] \in stop
         /\ \E i \in 1..Len(toks) : Len(toks[i]) < 3 /\ toks[i] \notin stop
         /\ \E i, j \in 1..Len(toks) : i # j /\ toks[i] = toks[j] /\ toks[i] \in Range(ret)
  /\ count[1] >= 2
  /\ Len(ret) = count[1]

(***************************************************************************)
(* C6.  _top_keywords lists keywords by descending number of occurrences,  *)
(* among equally frequent ones the one seen first in the text first, and   *)
(* returns exactly the first k of that order.                              *)
(***************************************************************************)
C6_KeywordOrder ==
  (pc = "top_keywords" /\ count[1] >= 0) =>
    LET toks == Qualifying(text)
    IN  /\ Range(ret) \subseteq Range(toks)
        /\ Len(ret) = Min(count[1], Cardinality(Range(toks)))
        /\ \A i, j \in 1..Len(ret) : i < j => RanksBefore(toks, ret[i], ret[j])
        /\ \A w \in Range(toks) \ Range(ret) :
             \A i \in 1..Len(ret) : RanksBefore(toks, ret[i], w)

\* a tie decided by first-seen order, a more frequent keyword listed before
\* one seen earlier, and a keyword cut off
C6_Witness ==
  /\ pc = "top_keywords"
  /\ count[1] >= 2
  /\ LET toks == Qualifying(text)
     IN  /\ \E i \in 1..(Len(ret) - 1) :
               Occurrences(toks, ret[i]) = Occurrences(toks, ret[i + 1])
         /\ \E i \in 1..(Len(ret) - 1) :
               FirstSeen(toks, ret[i]) > FirstSeen(toks, ret[i + 1])
         /\ Range(toks) \ Range(ret) # {}

(***************************************************************************)
(* C7.  The mind map has exactly one node with id "root", pairwise         *)
(* distinct node ids, edges that all go from "root" to a non-root node,    *)
(* exactly one edge to each non-root node, and 1 + min(6, number of        *)
(* distinct keywords of the text) nodes.                                   *)
(***************************************************************************)
C7_MindmapStar ==
  pc = "generate_mindmap" =>
    LET nodes == ret.nodes
        edges == ret.edges
    IN  /\ Cardinality({i \in 1..Len(nodes) : nodes[i].id = root}) = 1
        /\ \A i, j \in 1..Len(nodes) : nodes[i].id = nodes[j].id => i = j
        /\ \A e \in 1..Len(edges) :
             /\ edges[e].from = root
             /\ edges[e].to # root
             /\ \E i \in 1..Len(nodes) : nodes[i].id = edges[e].to
        /\ \A i \in 1..Len(nodes) :
             nodes[i].id # root =>
               Cardinality({e \in 1..Len(edges) : edges[e].to = nodes[i].id}) = 1
        /\ Len(nodes) = 1 + Min(6, Cardinality(Range(Qualifying(text))))
        /\ Qualifying(text) = <<>> => Len(nodes) = 1 /\ edges = <<>>

\* a text with more than six keywords
C7_Witness ==
  /\ pc = "generate_mindmap"
  /\ Cardinality(Range(Qualifying(text))) > 6
  /\ Len(ret.nodes) = 7
  /\ Len(ret.edges) = 6

(***************************************************************************)
(* C8.  generate_flashcards(text, n), n >= 1, returns between one and n    *)
(* cards; with a keyword in the text the i-th card asks "What is {k}?" for *)
(* the i-th of _top_keywords(text, max(3, n)); with none it returns the    *)
(* one fallback card, answered by generate_summary(text) with default n.   *)
(***************************************************************************)
C8_Flashcards ==
  (pc = "generate_flashcards" /\ count[1] >= 1) =>
    LET keys == top_keywords(text, Max(3, count[1]))
    IN  /\ Len(ret) >= 1
        /\ Len(ret) <= count[1]
        /\ keys # <<>> =>
             \A i \in 1..Len(ret) : ret[i].question = WhatIs \o keys[i] \o <<"?">>
        /\ keys = <<>> =>
             ret = <<[question |-> MainIdeaQuestion,
                      answer |-> generate_summary(text, 3)]>>

\* fewer cards asked for than the three keywords extracted
C8_Witness ==
  /\ pc = "generate_flashcards"
  /\ count[1] \in 1..2
  /\ Len(top_keywords(text, Max(3, count[1]))) = 3
  /\ Len(ret) = count[1]

(***************************************************************************)
(* C9 as claimed.  _sentences of a text without a period that is not       *)
(* blank, embedded newlines or not, is one element: the trimmed text.      *)
(***************************************************************************)
C9_SingleSentenceIsTrimmedText ==
  (pc = "sentences" /\ NoPeriod(text) /\ ~Blank(text)) => ret = <<strip(text)>>

(***************************************************************************)
(* C9 as amended.  _sentences of a text without a period that is not blank *)
(* is one element: the trimmed text with each newline left in it replaced  *)
(* by a space; it is the trimmed text if that holds no newline.            *)
(***************************************************************************)
C9_SingleSentenceNewlinesReplaced ==
  (pc = "sentences" /\ NoPeriod(text) /\ ~Blank(text)) =>
    LET trimmed == strip(text)
    IN  /\ Len(ret) = 1
        /\ Len(ret[1]) = Len(trimmed)
        /\ \A i \in 1..Len(trimmed) :
             ret[1][i] = IF trimmed[i] = "\n" THEN " " ELSE trimmed[i]
        /\ (\A i \in 1..Len(trimmed) : trimmed[i] # "\n") => ret = <<trimmed>>

\* a text of two lines, with white space to trim
C9_Witness ==
  /\ pc = "sentences"
  /\ NoPeriod(text) /\ ~Blank(text)
  /\ \E i \in 1..Len(strip(text)) : strip(text)[i] = "\n"
  /\ Len(strip(text)) < Len(text)
  /\ Len(ret) = 1

(***************************************************************************)
(* C10.  Every keyword of a text is a substring of the lower-cased form of *)
(* one of its sentences, so no flashcard carries the placeholder answer    *)
(* and no MCQ the template question: the answer of a keyword's flashcard   *)
(* and the question of a keyword's MCQ is the first sentence that holds    *)
(* the keyword.                                                            *)
(***************************************************************************)
C10_KeywordInSentence ==
  (pc = "generate" /\ ~Blank(text)) =>
    LET t == strip(text)
        sents == sentences(t)
        keys == top_keywords(t, DefaultCount + 3)
        cards == IF ret.flashcards = None THEN <<>> ELSE ret.flashcards[1]
        items == IF ret.mcqs # None THEN ret.mcqs[1]
                 ELSE IF ret.quiz # None THEN ret.quiz[1] ELSE <<>>
    IN  /\ \A i \in 1..Len(keys) :
             \E j \in 1..Len(sents) : Contains(lower(sents[j]), keys[i])
        /\ \A i \in 1..Len(cards) :
             \/ cards[i].question = MainIdeaQuestion
             \/ \E k \in Range(keys) :
                  /\ cards[i].question = WhatIs \o k \o <<"?">>
                  /\ cards[i].answer # DefinitionFor \o k \o FromTheText
                  /\ IsFirstSentenceWith(sents, k, cards[i].answer)
        /\ \A i \in 1..Len(items) :
             \/ items[i] = FallbackMcq
             \/ \E k \in Range(keys) :
                  /\ items[i].options[items[i].answer_index + 1] = k
                  /\ items[i].question # IdentifyConcept \o k \o QuoteDot
                  /\ IsFirstSentenceWith(sents, k, items[i].question)

\* the second keyword's card is answered by the second sentence, which holds
\* the keyword in capitals
C10_Witness ==
  /\ pc = "generate"
  /\ ret.flashcards # None
  /\ Len(ret.flashcards[1]) = 2
  /\ Len(sentences(strip(text))) = 2
  /\ ret.flashcards[1][2].answer = sentences(strip(text))[2]
  /\ lower(ret.flashcards[1][2].answer) # ret.flashcards[1][2].answer

====
